---------------------------- MODULE Spec2Model ----------------------------
(***************************************************************************)
(* The enrichment pipeline of src/app.py: analyze() / perform_analysis() / *)
(* results() over the shared progress dictionary, the saved-profiles file  *)
(* and the process-wide comment-scraping thread pool.                      *)
(*                                                                         *)
(* A handler is cut into steps at its blocking points (time.sleep, the     *)
(* remote profile call, the image download, future.result(), the language  *)
(* model call, the file read and the file write of save_profile_data):     *)
(* between two blocking points a handler runs as one step.                 *)
(***************************************************************************)
EXTENDS Integers, Sequences, FiniteSets, TLC

(***************************************************************************)
(* Program constants.                                                      *)
(***************************************************************************)
NUM_POSTS_TO_SCRAPE == 5
MAX_WORKERS == 5

(***************************************************************************)
(* Bounds of the model.                                                    *)
(***************************************************************************)
\* longest list of post stubs a profile answer of the solo specification holds
MaxPosts == 6
\* up to this length the solo specification takes every list of stubs
MixedLen == 2
\* posts per profile answer in the concurrent specification
ConcPosts == 1
\* forms posted to /analyze, by all sessions together: solo and concurrent
\* specification
MaxForms == 2
ConcForms == 2
\* longest reply text of the scoring-function specification
MaxTextLen == 6
\* posts per profile answer in the specification of the worker pool
PoolPosts == 3

(***************************************************************************)
(* JSON values: a key of a dict is missing, null, or holds a value.        *)
(***************************************************************************)
Missing == [tag |-> "missing"]
Null == [tag |-> "null"]
Val(x) == [tag |-> "val", v |-> x]

\* d.get(key): a missing key reads as None
Get(x) == IF x.tag = "missing" THEN Null ELSE x
\* d.get(key, default)
GetOr(x, default) == IF x.tag = "missing" THEN Val(default) ELSE x
\* Python truthiness of an optional text (a sequence of characters)
TruthyText(x) == x.tag = "val" /\ x.v # <<>>


(***************************************************************************)
(* Text is a sequence of one-character strings.                            *)
(***************************************************************************)
IsSpace(c) == c = " "

Max(a, b) == IF a >= b THEN a ELSE b
Min(a, b) == IF a <= b THEN a ELSE b

\* str.split(): the maximal runs of non-whitespace characters, in order
RECURSIVE SplitFrom(_, _, _)
SplitFrom(s, i, cur) ==
    IF i > Len(s)
    THEN IF cur = <<>> THEN <<>> ELSE <<cur>>
    ELSE IF IsSpace(s[i])
         THEN (IF cur = <<>> THEN <<>> ELSE <<cur>>) \o SplitFrom(s, i + 1, <<>>)
         ELSE SplitFrom(s, i + 1, Append(cur, s[i]))

Split(s) == SplitFrom(s, 1, <<>>)

\* tag.startswith('#')
StartsWithHash(t) == Len(t) >= 1 /\ t[1] = "#"

\* tag.strip('#'): leading and trailing '#' characters removed
RECURSIVE LStripHash(_)
LStripHash(t) == IF t # <<>> /\ t[1] = "#" THEN LStripHash(Tail(t)) ELSE t

RECURSIVE RStripHash(_)
RStripHash(t) ==
    IF t # <<>> /\ t[Len(t)] = "#" THEN RStripHash(SubSeq(t, 1, Len(t) - 1)) ELSE t

StripHash(t) == RStripHash(LStripHash(t))

RECURSIVE FilterTags(_)
FilterTags(toks) ==
    IF toks = <<>> THEN <<>>
    ELSE (IF StartsWithHash(Head(toks)) THEN <<StripHash(Head(toks))>> ELSE <<>>)
         \o FilterTags(Tail(toks))

\* [tag.strip("#") for tag in caption.split() if tag.startswith('#')]
Hashtags(caption) == FilterTags(Split(caption))

\* int(x or 0) of an optional integer: None and 0 give 0, anything else itself
IntOrZero(x) == IF x.tag = "val" THEN x.v ELSE 0

(***************************************************************************)
(* get_ai_analysis: the score of a reply text.  The literal                *)
(* "Overall Score:" of the pattern is one element of the text.             *)
(***************************************************************************)
DigitChars == {"0", "1", "2", "3", "4", "5", "6", "7", "8", "9"}
IsDigit(c) == c \in DigitChars
DigitVal(c) ==
    CASE c = "0" -> 0 [] c = "1" -> 1 [] c = "2" -> 2 [] c = "3" -> 3
      [] c = "4" -> 4 [] c = "5" -> 5 [] c = "6" -> 6 [] c = "7" -> 7
      [] c = "8" -> 8 [] c = "9" -> 9

\* first position >= i of t that holds no whitespace (Len(t) + 1 when none)
RECURSIVE SkipSpaces(_, _)
SkipSpaces(t, i) == IF i <= Len(t) /\ IsSpace(t[i]) THEN SkipSpaces(t, i + 1) ELSE i

\* first position >= i of t that holds no digit
RECURSIVE SkipDigits(_, _)
SkipDigits(t, i) == IF i <= Len(t) /\ IsDigit(t[i]) THEN SkipDigits(t, i + 1) ELSE i

\* int() of the digits t[i..j-1]
RECURSIVE DigitsValue(_, _, _)
DigitsValue(t, i, j) ==
    IF i >= j THEN 0 ELSE DigitsValue(t, i, j - 1) * 10 + DigitVal(t[j - 1])

\* r"Overall Score:\s*(\d+)\/10" matched at position p of t: group 1, or -1
MatchAt(t, p) ==
    IF t[p] # "Overall Score:" THEN -1
    ELSE LET q == SkipSpaces(t, p + 1)
             r == SkipDigits(t, q)
         IN  IF r > q /\ r + 2 <= Len(t)
                /\ t[r] = "/" /\ t[r + 1] = "1" /\ t[r + 2] = "0"
             THEN DigitsValue(t, q, r)
             ELSE -1

\* re.search: the leftmost position where the pattern matches, or 0
FirstMatch(t) ==
    LET hits == {p \in 1..Len(t) : MatchAt(t, p) >= 0}
    IN  IF hits = {} THEN 0 ELSE CHOOSE p \in hits : \A q \in hits : p <= q

\* mutant of Clamp: the lower bound is forgotten
Clamp_NoFloor(x) == Min(10, x)

\* max(1, min(10, overall_score))
Clamp(x) == Max(1, Min(10, x))

\* overall_score for a reply whose content is the text t
ParseScore(t) ==
    LET p == FirstMatch(t)
    IN  IF p = 0 THEN 0 ELSE Clamp(MatchAt(t, p))

\* The reply of the language-model service, as requests.post delivers it:
\*   transport : requests.post / raise_for_status raised a RequestException
\*   garbled   : response.json() or the walk through the result raised
\*   json      : a JSON object; content and errmsg are its
\*               choices[0].message.content and error.message
\*   http_error: an answer with status 4xx or 5xx whose body holds
\*               error.message; raise_for_status raises HTTPError
\*   bad_json  : the body is no JSON document and response.json() raises
\*               the JSONDecodeError of requests, a RequestException
TransportFailure == [kind |-> "transport", content |-> Null, errmsg |-> Null]
GarbledReply == [kind |-> "garbled", content |-> Null, errmsg |-> Null]
JsonReply(content, errmsg) == [kind |-> "json", content |-> content, errmsg |-> errmsg]
HttpErrorReply(errmsg) == [kind |-> "http_error", content |-> Null, errmsg |-> errmsg]
BadJsonReply == [kind |-> "bad_json", content |-> Null, errmsg |-> Null]

\* the except branch of line 358 takes the exception of the reply
RaisesRequestException(reply) == reply.kind \in {"transport", "http_error", "bad_json"}

\* mutant of ExcText: the exception is left out of the text
ExcText_Dropped(reply) == <<>>

\* str(e) of the exception a reply raises, one token for each message; the
\* message of an HTTPError is the status line, not error.message of the body
ExcText(reply) ==
    CASE reply.kind = "transport" -> <<"Connection refused">>
      [] reply.kind = "http_error" -> <<"429 Client Error">>
      [] reply.kind = "bad_json" -> <<"Expecting value">>
      [] OTHER -> <<"object has no attribute">>

\* narrative texts of get_ai_analysis; body holds the model's own words
Narrative(kind, body) == [kind |-> kind, body |-> body]
FailureKinds == {"network_error", "unexpected_error", "remote_error", "bad_structure"}

\* lines 318-365: {"text": analysis_text, "score": overall_score}
AIResult(reply) ==
    CASE RaisesRequestException(reply) ->
            [text |-> Narrative("network_error", ExcText(reply)), score |-> 0]
      [] reply.kind = "garbled" ->
            [text |-> Narrative("unexpected_error", ExcText(reply)), score |-> 0]
      [] OTHER ->
            IF TruthyText(reply.content)
            THEN [text |-> Narrative("content", reply.content.v),
                  score |-> ParseScore(reply.content.v)]
            ELSE IF TruthyText(reply.errmsg)
                 THEN [text |-> Narrative("remote_error", reply.errmsg.v), score |-> 0]
                 ELSE [text |-> Narrative("bad_structure", <<>>), score |-> 0]

\* mutant of AccountScale: the thresholds belong to the lower scale
AccountScale_Inclusive(followers) ==
    IF followers <= 10000
    THEN [tier |-> 1, description |-> "a Nano/Micro-Influencer", guidance |-> "above 3%"]
    ELSE IF followers <= 100000
    THEN [tier |-> 2, description |-> "a Small/Mid-Tier Influencer", guidance |-> "above 2%"]
    ELSE IF followers <= 500000
    THEN [tier |-> 3, description |-> "a Mid-Tier/Macro-Influencer", guidance |-> "above 1.5%"]
    ELSE IF followers <= 5000000
    THEN [tier |-> 4, description |-> "a Macro-Influencer", guidance |-> "above 0.8%"]
    ELSE [tier |-> 5, description |-> "a Mega-Influencer or Global Brand", guidance |-> "above 0.2%"]

\* lines 223-242: the branch taken for a follower count, counted from the
\* top, with the opening words of account_scale_description and the
\* engagement rate that score_guidance calls excellent
AccountScale(followers) ==
    IF followers < 10000
    THEN [tier |-> 1, description |-> "a Nano/Micro-Influencer", guidance |-> "above 3%"]
    ELSE IF followers < 100000
    THEN [tier |-> 2, description |-> "a Small/Mid-Tier Influencer", guidance |-> "above 2%"]
    ELSE IF followers < 500000
    THEN [tier |-> 3, description |-> "a Mid-Tier/Macro-Influencer", guidance |-> "above 1.5%"]
    ELSE IF followers < 5000000
    THEN [tier |-> 4, description |-> "a Macro-Influencer", guidance |-> "above 0.8%"]
    ELSE [tier |-> 5, description |-> "a Mega-Influencer or Global Brand", guidance |-> "above 0.2%"]

(***************************************************************************)
(* What the remote data source can answer.                                 *)
(***************************************************************************)
\* post stubs of a profile answer (items of latestPosts)
StubFull ==
    [shortCode |-> Val("CxA1"), caption |-> Val(<<"h", "i", " ", "#", "a">>),
     likesCount |-> Val(7), commentsCount |-> Val(2), typename |-> Val("GraphImage")]
\* no short code, a caption that is only hashtags
StubNoCode ==
    [shortCode |-> Null, caption |-> Val(<<"#", "x", " ", "#", "y", "#">>),
     likesCount |-> Null, commentsCount |-> Val(0), typename |-> Val("GraphVideo")]
\* the caption key is present and null
StubNullCaption ==
    [shortCode |-> Val("CxB2"), caption |-> Null,
     likesCount |-> Val(3), commentsCount |-> Missing, typename |-> Val("GraphSidecar")]
\* nothing but a short code: every optional key is missing
StubBare ==
    [shortCode |-> Val("CxC3"), caption |-> Missing,
     likesCount |-> Missing, commentsCount |-> Missing, typename |-> Missing]

\* a post whose comment scrape raises (its short code is in BrokenCodes)
StubBroken ==
    [shortCode |-> Val("CxF9"), caption |-> Val(<<"#", "b">>),
     likesCount |-> Val(0), commentsCount |-> Val(5), typename |-> Val("GraphImage")]
BrokenCodes == {"CxF9"}

StubKinds == {StubFull, StubBroken, StubNoCode, StubNullCaption, StubBare}

\* every list of at most n stubs
StubLists(n) == UNION {[1..k -> StubKinds] : k \in 0..n}
\* the lists of one repeated stub, of every length up to n
UniformLists(n) == {[i \in 1..k |-> st] : k \in 0..n, st \in StubKinds}

\* comments of one post as the comment scraper returns them
OneComment == <<[text |-> Val(<<"n", "i", "c", "e">>)]>>

\* item 0 of the profile scraper's dataset
ProfileAnswer(name, followers, follows, pic, posts) ==
    [username |-> name, fullName |-> Val("Bob B"), followersCount |-> followers,
     followsCount |-> follows, biography |-> Null, profilePicUrl |-> pic,
     latestPosts |-> posts]

Users == {"bob", "Bob"}

\* the answers of the solo specification: every short list of stubs and the
\* long uniform ones, under a fully filled profile; and profiles whose own
\* optional keys are null or missing

SoloAnswers ==
    {ProfileAnswer(Val("bob"), Val(1200), Val(10), Val("http://pic"), Val(l)) :
        l \in StubLists(MixedLen) \cup UniformLists(MaxPosts)}
    \cup {ProfileAnswer(Val("bob"), Null, Missing, Null, Missing),
          ProfileAnswer(Val("bob"), Missing, Val(0), Val("http://pic"), Null)}

\* the answers of the concurrent specification
ConcAnswers ==
    {ProfileAnswer(Val("bob"), Val(1200), Val(10), Val("http://pic"),
                   Val([i \in 1..k |-> StubFull])) :
        k \in {ConcPosts}}

\* replies of the language model used by the pipeline specifications
ScoreText(digits) == <<"Overall Score:", " ">> \o digits \o <<"/", "1", "0">>
PipelineReplies ==
    {TransportFailure, GarbledReply,
     JsonReply(Null, Val(<<"q", "u", "o", "t", "a">>)),
     JsonReply(Null, Null),
     JsonReply(Val(ScoreText(<<"7">>)), Null),
     JsonReply(Val(ScoreText(<<"1", "4">>)), Null),
     JsonReply(Val(<<"n", "o", " ", "s", "c", "o", "r", "e">>), Null)}

(***************************************************************************)
(* State.                                                                  *)
(***************************************************************************)
VARIABLES
    session,    \* session['username_to_analyze'] of each browser session
    errmsg,     \* whether session['error_message'] is set
    progress,   \* global_analysis_progress: key -> [status, percentage]
    cache,      \* what saved_profiles.json parses to: username -> analysis
    torn,       \* whether the bytes of saved_profiles.json are no JSON document
    run,        \* the perform_analysis request of each session: pc and locals
    fut,        \* the futures a session's request submitted to the executor
    queue,      \* the executor's work queue: <<session, index>> in FIFO order
    world,      \* what the collaborators answer, and which sessions exist
    posted,     \* how many forms each session has posted to /analyze
    rendered,   \* usernames whose result page was rendered since their last form
    resp,       \* the response of /analysis_progress or /results just served
    probe       \* input and output of the function specifications

vars == <<session, errmsg, progress, cache, torn, run, fut, queue, world, posted,
          rendered, resp, probe>>

Sessions == {"s1", "s2"}
NoUser == ""

\* the request has returned ("done", "failed") or died of an uncaught
\* exception ("crashed": the KeyError of line 309, or the JSONDecodeError of
\* json.load on a file that is being rewritten)
Ended == {"done", "failed", "crashed"}

NoProfile == [username |-> Null]
NoAI == [text |-> Narrative("none", <<>>), score |-> -1]
NoReply == [kind |-> "none", content |-> Null, errmsg |-> Null]
NoProbe == [in |-> NoReply, out |-> NoAI]
EmptyDict == [k \in {} |-> 0]

\* an uncaught exception instead of a value
Raised == [tag |-> "raise"]
\* no response of a reading route has just been served
NoResp == [route |-> "none", session |-> "", user |-> NoUser, body |-> Null]

\* a session with no request in flight; n* count the remote calls and cache
\* writes of the request, plog lists its progress writes (with analyze's),
\* got is what the profile scraper gave ("raise", "empty", "item"), reply is
\* the answer the language model gave, prompt holds the post URLs of the
\* prompt, overtaken is the first pair <<j, i>> of tasks of which j, submitted
\* later, finished before i (<<0, 0>> when there is none), shared tells
\* that another request had the file open for writing while this one had
IdleRun ==
    [pc |-> "idle", user |-> NoUser, cached |-> FALSE, got |-> "none", item |-> NoProfile,
     profile |-> NoProfile, stubs |-> <<>>, next |-> 0, latestPosts |-> <<>>,
     prompt |-> <<>>, reply |-> NoReply, ai |-> NoAI, snap |-> EmptyDict,
     shared |-> FALSE, overtaken |-> <<0, 0>>,
     nProfile |-> 0, nComment |-> 0, nLLM |-> 0, nPut |-> 0, plog |-> <<>>]

\* mutant of update_progress: the fields of the entry at hand are written one
\* by one, and a reader comes between the two stores
update_progress_Torn(p, key, status, percentage) ==
    [k \in DOMAIN p \cup {key} |->
        IF k = key
        THEN [status |-> status,
              percentage |-> IF key \in DOMAIN p THEN p[key].percentage ELSE percentage]
        ELSE p[k]]

\* update_progress(username, status, percentage), line 74: one store of a
\* new dictionary under the key
update_progress(p, key, status, percentage) ==
    [k \in DOMAIN p \cup {key} |->
        IF k = key THEN [status |-> status, percentage |-> percentage] ELSE p[k]]

Logged(r, key, status, percentage) ==
    [r EXCEPT !.plog = Append(@, [key |-> key, status |-> status, pct |-> percentage])]

\* saved_profiles[username] = data
DictPut(d, key, value) == [k \in DOMAIN d \cup {key} |-> IF k = key THEN value ELSE d[k]]
\* del d[key]
DictDel(d, key) == [k \in DOMAIN d \ {key} |-> d[k]]

TasksSettled(s) == \A i \in DOMAIN fut[s] : fut[s][i].st = "done"
Running == {t \in Sessions \X (1..NUM_POSTS_TO_SCRAPE) :
                t[2] \in DOMAIN fut[t[1]] /\ fut[t[1]][t[2]].st = "running"}

(***************************************************************************)
(* analyze(): POST /analyze.  A browser posts the form from the index page *)
(* or from a finished analysis, never while its own request is in flight;  *)
(* world.forms bounds the forms the sessions post.                         *)
(***************************************************************************)
RECURSIVE FormsPosted(_)
FormsPosted(S) ==
    IF S = {} THEN 0
    ELSE LET s == CHOOSE x \in S : TRUE IN posted[s] + FormsPosted(S \ {s})

Analyze(s, u) ==
    /\ s \in world.clients
    /\ run[s].pc \in {"idle"} \cup Ended
    /\ TasksSettled(s)
    /\ FormsPosted(Sessions) < world.forms
    /\ posted' = [posted EXCEPT ![s] = @ + 1]
    /\ IF u = NoUser
       THEN /\ errmsg' = [errmsg EXCEPT ![s] = TRUE]
            /\ UNCHANGED <<session, progress, run, fut, rendered>>
       ELSE /\ session' = [session EXCEPT ![s] = u]
            /\ errmsg' = [errmsg EXCEPT ![s] = FALSE]
            /\ progress' = update_progress(progress, u, "Initializing analysis...", 0)
            /\ run' = [run EXCEPT ![s] = Logged(IdleRun, u, "Initializing analysis...", 0)]
            /\ fut' = [fut EXCEPT ![s] = <<>>]
            /\ rendered' = rendered \ {u}
    /\ resp' = NoResp
    /\ UNCHANGED <<cache, torn, queue, world, probe>>

\* mutant of CacheHit: the cache is never consulted
CacheHit_Skipped(saved, username) == FALSE

\* `username in saved_profiles`
CacheHit(saved, username) == username \in DOMAIN saved

\* load_saved_profiles, lines 43-48: json.load raises on a file whose bytes
\* are no JSON document, else the dictionary is returned
load_saved_profiles(saved, unreadable) == IF unreadable THEN Raised ELSE Val(saved)

(***************************************************************************)
(* perform_analysis(), lines 403-415: the cache check.  When the load      *)
(* raises, the request dies there.                                         *)
(***************************************************************************)
PerformStart(s) ==
    /\ s \in world.clients
    /\ session[s] # NoUser
    /\ run[s].pc = "idle"
    /\ LET u == session[s]
           r == [run[s] EXCEPT !.user = u]
           saved_profiles == load_saved_profiles(cache, torn)
       IN  CASE saved_profiles.tag = "raise" ->
                /\ run' = [run EXCEPT ![s] = [r EXCEPT !.pc = "crashed"]]
                /\ UNCHANGED progress
             [] saved_profiles.tag = "val" /\ CacheHit(saved_profiles.v, u) ->
                /\ progress' = update_progress(progress, u, "Analysis complete (cached)!", 100)
                /\ run' = [run EXCEPT ![s] =
                             [Logged(r, u, "Analysis complete (cached)!", 100)
                                EXCEPT !.pc = "done", !.cached = TRUE]]
             [] OTHER ->
                /\ run' = [run EXCEPT ![s] = [r EXCEPT !.pc = "started"]]
                /\ UNCHANGED progress
    /\ resp' = NoResp
    /\ UNCHANGED <<session, errmsg, cache, torn, fut, queue, world, posted, rendered, probe>>

(***************************************************************************)
(* scrape_instagram_profile_and_comments(), lines 126-146: progress 20 and *)
(* the profile scraper is called.                                          *)
(***************************************************************************)
ScrapeStart(s) ==
    /\ run[s].pc = "started"
    /\ LET u == run[s].user
       IN  /\ progress' = update_progress(progress, u, "Scraping profile data...", 20)
           /\ run' = [run EXCEPT ![s] =
                        [Logged(@, u, "Scraping profile data...", 20)
                           EXCEPT !.pc = "fetchingProfile", !.nProfile = @ + 1]]
    /\ resp' = NoResp
    /\ UNCHANGED <<session, errmsg, cache, torn, fut, queue, world, posted, rendered, probe>>

\* Python truthiness of an optional string
TruthyStr(x) == x.tag = "val" /\ x.v # ""

\* the dictionary key a username read with .get() makes
KeyOf(name) == IF name.tag = "val" THEN name.v ELSE "<None>"

\* lines 160-169: scraped_data["profile"]
BuildProfile(item, b64) ==
    [username |-> Get(item.username),
     fullName |-> Get(item.fullName),
     followersCount |-> IntOrZero(GetOr(item.followersCount, 0)),
     followsCount |-> IntOrZero(GetOr(item.followsCount, 0)),
     bio |-> Get(item.biography),
     profilePicUrl |-> Get(item.profilePicUrl),
     profilePicBase64 |-> b64,
     profileUrl |-> <<"https://www.instagram.com/", KeyOf(Get(item.username)), "/">>]

\* mutant of PostsToScrape: the slice is forgotten
PostsToScrape_All(posts) == posts

\* posts[:NUM_POSTS_TO_SCRAPE]
PostsToScrape(posts) == SubSeq(posts, 1, Min(Len(posts), NUM_POSTS_TO_SCRAPE))

\* original_post.get('__typename', '').replace('Graph', '')
MediaType(typename) ==
    CASE typename = "GraphImage" -> "Image"
      [] typename = "GraphVideo" -> "Video"
      [] typename = "GraphSidecar" -> "Sidecar"
      [] OTHER -> typename

\* lines 188-193 and again 198-203: .split() and .replace() of None raise, in
\* the try block and then in its own except block, so the exception leaves
\* the loop
FinalizeRaises(stub) ==
    \/ GetOr(stub.caption, <<>>).tag = "null"
    \/ GetOr(stub.typename, "").tag = "null"

\* lines 188-193: post_copy
FinalizePost(stub, comments) ==
    [shortCode |-> stub.shortCode,
     caption |-> stub.caption,
     comments |-> comments,
     hashtags |-> Hashtags(GetOr(stub.caption, <<>>).v),
     likesCount |-> IntOrZero(GetOr(stub.likesCount, 0)),
     commentsCount |-> IntOrZero(GetOr(stub.commentsCount, 0)),
     mediaType |-> MediaType(GetOr(stub.typename, "").v)]

\* line 309: post['caption'] of a post without the key raises KeyError,
\* outside every try block
PromptRaises(posts) == \E i \in 1..Len(posts) : posts[i].caption.tag = "missing"

\* post['caption'][:100] of line 309
CAPTION_PREVIEW == 100

\* line 309: caption_preview of a post that has the caption key
CaptionPreview(caption) ==
    IF TruthyText(caption)
    THEN SubSeq(caption.v, 1, Min(Len(caption.v), CAPTION_PREVIEW)) \o <<".", ".", ".">>
    ELSE <<"N", "o", " ", "c", "a", "p", "t", "i", "o", "n">>

\* line 311: post_url of the prompt
PostUrl(post) ==
    IF TruthyStr(Get(post.shortCode))
    THEN <<"https://www.instagram.com/p/", post.shortCode.v, "/">>
    ELSE <<"N/A">>

\* lines 308-312: the post URLs the prompt lists, in order
PromptUrls(posts) == [i \in 1..Len(posts) |-> PostUrl(posts[i])]

\* mutant of RetrievalFailed: the error state is not written
RetrievalFailed_Silent(s, r) ==
    /\ errmsg' = [errmsg EXCEPT ![s] = TRUE]
    /\ progress' = progress
    /\ run' = [run EXCEPT ![s] = [r EXCEPT !.pc = "failed"]]

(***************************************************************************)
(* perform_analysis(), lines 420-424: the scrape returned None.            *)
(***************************************************************************)
RetrievalFailed(s, r) ==
    /\ errmsg' = [errmsg EXCEPT ![s] = TRUE]
    /\ progress' = update_progress(progress, r.user, "Error during data retrieval!", 0)
    /\ run' = [run EXCEPT ![s] =
                 [Logged(r, r.user, "Error during data retrieval!", 0) EXCEPT !.pc = "failed"]]

(***************************************************************************)
(* get_ai_analysis(), lines 219-335: progress 80 under the username the    *)
(* profile data reports, the prompt, and the call of the language model.   *)
(* p is the progress dictionary as the step has changed it so far.         *)
(***************************************************************************)
EnterScoring(s, r, p) ==
    LET key == KeyOf(r.profile.username)
        r2 == Logged(r, key, "Analyzing with AI...", 80)
    IN  /\ progress' = update_progress(p, key, "Analyzing with AI...", 80)
        /\ run' = [run EXCEPT ![s] =
                     IF PromptRaises(r.latestPosts)
                     THEN [r2 EXCEPT !.pc = "crashed"]
                     ELSE [r2 EXCEPT !.pc = "scoring", !.nLLM = @ + 1,
                                     !.prompt = PromptUrls(r.latestPosts)]]
        /\ UNCHANGED errmsg

(***************************************************************************)
(* scrape_instagram_profile_and_comments(), lines 160-182 and 205-208:     *)
(* the profile record, progress 50 and the submission of one task per      *)
(* post; with no posts the scrape returns and the scoring starts.          *)
(***************************************************************************)
FanOut(s, r, b64) ==
    LET u == r.user
        posts == GetOr(r.item.latestPosts, <<>>)
        p1 == update_progress(progress, u, "Scraping posts and comments (concurrently)...", 50)
        r1 == Logged([r EXCEPT !.profile = BuildProfile(r.item, b64)],
                     u, "Scraping posts and comments (concurrently)...", 50)
    IN  IF posts.tag = "val" /\ posts.v # <<>>
        THEN LET stubs == PostsToScrape(posts.v)
             IN  /\ fut' = [fut EXCEPT ![s] =
                              [i \in 1..Len(stubs) |->
                                 [st |-> "queued", shortCode |-> Get(stubs[i].shortCode),
                                  res |-> <<>>, failed |-> FALSE]]]
                 /\ queue' = queue \o [i \in 1..Len(stubs) |-> <<s, i>>]
                 /\ run' = [run EXCEPT ![s] =
                              [r1 EXCEPT !.stubs = stubs, !.next = 1, !.pc = "collecting"]]
                 /\ progress' = p1
                 /\ UNCHANGED errmsg
        ELSE /\ EnterScoring(s, r1, p1)
             /\ UNCHANGED <<fut, queue>>

(***************************************************************************)
(* lines 146-158: the profile scraper returns.                             *)
(***************************************************************************)
ProfileReturn(s) ==
    /\ run[s].pc = "fetchingProfile"
    /\ \E a \in world.answers :
          IF a.kind # "item"
          THEN /\ RetrievalFailed(s, [run[s] EXCEPT !.got = a.kind])
               /\ UNCHANGED <<fut, queue>>
          ELSE LET r == [run[s] EXCEPT !.got = a.kind, !.item = a.item]
               IN  IF TruthyStr(Get(a.item.profilePicUrl))
                   THEN /\ run' = [run EXCEPT ![s] = [r EXCEPT !.pc = "fetchingImage"]]
                        /\ UNCHANGED <<errmsg, progress, fut, queue>>
                   ELSE FanOut(s, r, "")
    /\ resp' = NoResp
    /\ UNCHANGED <<session, cache, torn, world, posted, rendered, probe>>

\* fetch_image_as_base64: the data URL, or '' when the download fails
fetch_image_as_base64(ok) == IF ok THEN "data:image/jpeg;base64" ELSE ""

ImageReturn(s) ==
    /\ run[s].pc = "fetchingImage"
    /\ FanOut(s, run[s], fetch_image_as_base64(world.imageOk))
    /\ resp' = NoResp
    /\ UNCHANGED <<session, cache, torn, world, posted, rendered, probe>>

(***************************************************************************)
(* The executor: a worker takes the oldest queued task when fewer than     *)
(* MAX_WORKERS tasks are running.  _scrape_comments_for_single_post,       *)
(* lines 103-113: without a short code the task returns [] at once, else   *)
(* it calls the comment scraper.                                           *)
(***************************************************************************)
\* mutant of WorkerFree: the pool starts a thread for every task
WorkerFree_Unbounded(running) == TRUE

\* ThreadPoolExecutor(max_workers=5): a worker is idle or can still be made
WorkerFree(running) == Cardinality(running) < MAX_WORKERS

\* task i of s finishes: the first pair of a task that finished before one
\* submitted earlier
Overtaken(s, i) ==
    LET earlier == {j \in 1..(i - 1) : fut[s][j].st # "done"}
    IN  IF run[s].overtaken # <<0, 0>> \/ earlier = {} THEN run[s].overtaken
        ELSE <<i, CHOOSE j \in earlier : \A k \in earlier : j <= k>>

TaskStart(s, i) ==
    /\ queue # <<>>
    /\ Head(queue) = <<s, i>>
    /\ WorkerFree(Running)
    /\ queue' = Tail(queue)
    /\ IF TruthyStr(fut[s][i].shortCode)
       THEN /\ fut' = [fut EXCEPT ![s][i].st = "running"]
            /\ run' = [run EXCEPT ![s].nComment = @ + 1]
       ELSE /\ fut' = [fut EXCEPT ![s][i].st = "done"]
            /\ run' = [run EXCEPT ![s].overtaken = Overtaken(s, i)]
    /\ resp' = NoResp
    /\ UNCHANGED <<session, errmsg, progress, cache, torn, world, posted, rendered, probe>>

\* lines 113-118: the dataset items, or [] when the call raised
CommentsOrEmpty(raised, items) == IF raised THEN <<>> ELSE items

TaskFinish(s, i) ==
    /\ i \in DOMAIN fut[s]
    /\ fut[s][i].st = "running"
    /\ LET raised == fut[s][i].shortCode.v \in world.broken
       IN  fut' = [fut EXCEPT ![s][i] =
                     [@ EXCEPT !.st = "done", !.failed = raised,
                               !.res = CommentsOrEmpty(raised, OneComment)]]
    /\ run' = [run EXCEPT ![s].overtaken = Overtaken(s, i)]
    /\ resp' = NoResp
    /\ UNCHANGED <<session, errmsg, progress, cache, torn, queue, world, posted, rendered, probe>>

(***************************************************************************)
(* lines 184-208: future.result() of the next future in submission order   *)
(* returns and its post is finalized; after the last one the scrape        *)
(* returns and the scoring starts.                                         *)
(***************************************************************************)
\* mutant of AppendPost: the post is put in front of the list
AppendPost_Front(posts, post) == <<post>> \o posts

\* line 194: scraped_data["latestPosts"].append(post_copy)
AppendPost(posts, post) == Append(posts, post)

\* mutant of ResultReady: the result is taken without waiting for the task
ResultReady_NoWait(f) == TRUE

\* future.result() returns once the task has finished
ResultReady(f) == f.st = "done"

Collect(s) ==
    /\ run[s].pc = "collecting"
    /\ LET r == run[s]
           i == r.next
       IN  /\ ResultReady(fut[s][i])
           /\ IF FinalizeRaises(r.stubs[i])
              THEN RetrievalFailed(s, r)
              ELSE LET r1 == [r EXCEPT
                                !.latestPosts = AppendPost(@, FinalizePost(r.stubs[i], fut[s][i].res)),
                                !.next = i + 1]
                   IN  IF i < Len(r.stubs)
                       THEN /\ run' = [run EXCEPT ![s] = r1]
                            /\ UNCHANGED <<errmsg, progress>>
                       ELSE EnterScoring(s, r1, progress)
    /\ resp' = NoResp
    /\ UNCHANGED <<session, cache, torn, fut, queue, world, posted, rendered, probe>>

(***************************************************************************)
(* get_ai_analysis(), lines 335-365, and save_profile_data(), line 52: the *)
(* language model answers and the saved profiles are read from the file;   *)
(* when that load raises, the request dies there.                          *)
(***************************************************************************)
AIReturn(s) ==
    /\ run[s].pc = "scoring"
    /\ \E reply \in world.replies :
          LET r == [run[s] EXCEPT !.reply = reply, !.ai = AIResult(reply)]
              saved_profiles == load_saved_profiles(cache, torn)
          IN  run' = [run EXCEPT ![s] =
                        IF saved_profiles.tag = "raise"
                        THEN [r EXCEPT !.pc = "crashed"]
                        ELSE [r EXCEPT !.snap = saved_profiles.v, !.pc = "writing"]]
    /\ resp' = NoResp
    /\ UNCHANGED <<session, errmsg, progress, cache, torn, fut, queue, world, posted, rendered, probe>>

\* lines 430-433: full_analysis_data
FullAnalysis(r) ==
    [profile_data |-> [profile |-> r.profile, latestPosts |-> r.latestPosts],
     ai_analysis |-> r.ai]

\* mutant of SavedFile: the entry is not set before the file is rewritten
SavedFile_NotSet(snap, username, data) == snap

\* save_profile_data, lines 53-55: the file is rewritten from the dictionary
\* the request loaded, with its own entry set
SavedFile(snap, username, data) == DictPut(snap, username, data)

\* the requests that hold the file open for writing
Writers == {t \in Sessions : run[t].pc = "dumping"}

(***************************************************************************)
(* save_profile_data(), line 54: open(..., 'w') truncates the file.  No    *)
(* lock guards the file: from here to the close a reader finds no JSON     *)
(* document, and another request may open the file for writing as well.    *)
(***************************************************************************)
SaveOpen(s) ==
    /\ run[s].pc = "writing"
    /\ cache' = EmptyDict
    /\ torn' = TRUE
    /\ run' = [t \in Sessions |->
                 IF t = s THEN [run[s] EXCEPT !.pc = "dumping", !.shared = Writers # {}]
                 ELSE IF t \in Writers THEN [run[t] EXCEPT !.shared = TRUE]
                 ELSE run[t]]
    /\ resp' = NoResp
    /\ UNCHANGED <<session, errmsg, progress, fut, queue, world, posted, rendered, probe>>

(***************************************************************************)
(* save_profile_data(), lines 55-56, and perform_analysis(), lines         *)
(* 436-439: the dictionary is dumped, the file closed and the progress     *)
(* becomes 100.  A request that had the file to itself leaves its          *)
(* document; the bytes of two requests that wrote through their own        *)
(* handles at once make its document or a mixture that is no document.     *)
(***************************************************************************)
SaveWrite(s) ==
    /\ run[s].pc = "dumping"
    /\ LET r == run[s]
       IN  /\ \E mixed \in (IF r.shared THEN BOOLEAN ELSE {FALSE}) :
                 /\ torn' = mixed
                 /\ cache' = IF mixed THEN EmptyDict
                             ELSE SavedFile(r.snap, r.user, FullAnalysis(r))
           /\ progress' = update_progress(progress, r.user, "Analysis complete!", 100)
           /\ run' = [run EXCEPT ![s] =
                        [Logged(r, r.user, "Analysis complete!", 100)
                           EXCEPT !.pc = "done", !.nPut = @ + 1]]
    /\ resp' = NoResp
    /\ UNCHANGED <<session, errmsg, fut, queue, world, posted, rendered, probe>>

\* results(), lines 472-473: saved_profiles.get(username) of the loaded file
GetResult(saved, username) ==
    IF username \in DOMAIN saved THEN Val(saved[username]) ELSE Null

(***************************************************************************)
(* results(): GET /results.  The loading page goes there when its          *)
(* perform_analysis request has returned.  Lines 461-466 pop the session   *)
(* keys and delete the progress entry; lines 472-494 load the file, which  *)
(* may raise, and render what it holds for the username.                   *)
(***************************************************************************)
Results(s) ==
    /\ s \in world.clients
    /\ run[s].pc \in Ended
    /\ TasksSettled(s)
    /\ LET username == session[s]
           saved_profiles == load_saved_profiles(cache, torn)
       IN  /\ progress' = IF username # NoUser /\ username \in DOMAIN progress
                          THEN DictDel(progress, username)
                          ELSE progress
           /\ rendered' = IF username # NoUser THEN rendered \cup {username} ELSE rendered
           /\ resp' = [route |-> "results", session |-> s, user |-> username,
                       body |-> IF saved_profiles.tag = "raise" THEN Raised
                                ELSE GetResult(saved_profiles.v, username)]
    /\ session' = [session EXCEPT ![s] = NoUser]
    /\ errmsg' = [errmsg EXCEPT ![s] = FALSE]
    /\ run' = [run EXCEPT ![s] = IdleRun]
    /\ fut' = [fut EXCEPT ![s] = <<>>]
    /\ UNCHANGED <<cache, torn, queue, world, posted, probe>>

NoActiveAnalysis == [status |-> "No active analysis", percentage |-> 0]
WaitingToStart == [status |-> "Waiting for analysis to start...", percentage |-> 0]

\* line 452: global_analysis_progress.get(username, {...})
GetProgress(p, username) == IF username \in DOMAIN p THEN p[username] ELSE WaitingToStart

(***************************************************************************)
(* analysis_progress(): GET /analysis_progress, lines 446-453.  The        *)
(* loading page polls it; any client may request it at any time.           *)
(***************************************************************************)
Poll(s) ==
    /\ s \in world.clients
    /\ LET username == session[s]
       IN  resp' = [route |-> "progress", session |-> s, user |-> username,
                    body |-> IF username = NoUser THEN Val(NoActiveAnalysis)
                             ELSE Val(GetProgress(progress, username))]
    /\ UNCHANGED <<session, errmsg, progress, cache, torn, run, fut, queue, world, posted,
                   rendered, probe>>

(***************************************************************************)
(* The worlds: which sessions exist and what the collaborators answer.     *)
(***************************************************************************)
Item(a) == [kind |-> "item", item |-> a]
ProfileRaises == [kind |-> "raise", item |-> NoProfile]
ProfileEmpty == [kind |-> "empty", item |-> NoProfile]

GoodReply == JsonReply(Val(ScoreText(<<"7">>)), Null)
SampleAnswer ==
    ProfileAnswer(Val("bob"), Val(1200), Val(10), Val("http://pic"), Val(<<StubFull, StubBroken>>))

World(clients, forms, answers, replies, imageOk) ==
    [clients |-> clients, forms |-> forms, answers |-> answers, replies |-> replies,
     broken |-> BrokenCodes, imageOk |-> imageOk]

\* one session; the remote data is one fixed answer and one fixed reply
SoloWorlds ==
    {World({"s1"}, MaxForms, {Item(a)}, {GoodReply}, TRUE) : a \in SoloAnswers}
    \cup {World({"s1"}, MaxForms, {Item(SampleAnswer)}, {r}, FALSE) : r \in PipelineReplies}
    \cup {World({"s1"}, MaxForms, {a}, {GoodReply}, TRUE) : a \in {ProfileRaises, ProfileEmpty}}

InitWith(worlds, probes) ==
    /\ session = [s \in Sessions |-> NoUser]
    /\ errmsg = [s \in Sessions |-> FALSE]
    /\ progress = EmptyDict
    /\ cache = EmptyDict
    /\ torn = FALSE
    /\ run = [s \in Sessions |-> IdleRun]
    /\ fut = [s \in Sessions |-> <<>>]
    /\ queue = <<>>
    /\ world \in worlds
    /\ posted = [s \in Sessions |-> 0]
    /\ rendered = {}
    /\ resp = NoResp
    /\ probe \in probes

Init == InitWith(SoloWorlds, {NoProbe})

Next ==
    \/ \E s \in Sessions, u \in Users \cup {NoUser} : Analyze(s, u)
    \/ \E s \in Sessions : PerformStart(s)
    \/ \E s \in Sessions : ScrapeStart(s)
    \/ \E s \in Sessions : ProfileReturn(s)
    \/ \E s \in Sessions : ImageReturn(s)
    \/ \E s \in Sessions, i \in 1..NUM_POSTS_TO_SCRAPE : TaskStart(s, i)
    \/ \E s \in Sessions, i \in 1..NUM_POSTS_TO_SCRAPE : TaskFinish(s, i)
    \/ \E s \in Sessions : Collect(s)
    \/ \E s \in Sessions : AIReturn(s)
    \/ \E s \in Sessions : SaveOpen(s)
    \/ \E s \in Sessions : SaveWrite(s)
    \/ \E s \in Sessions : Results(s)
    \/ \E s \in Sessions : Poll(s)

Spec == Init /\ [][Next]_vars

\* two sessions; the replies differ so that two results can be told apart
ConcWorlds ==
    {World(Sessions, ConcForms, {Item(a) : a \in ConcAnswers}, {GoodReply, TransportFailure}, TRUE)}

InitConc == InitWith(ConcWorlds, {NoProbe})

SpecConc == InitConc /\ [][Next]_vars

\* two sessions and two forms, and profiles that hold so many posts that
\* the tasks of two requests outnumber the workers
PoolAnswer ==
    ProfileAnswer(Val("bob"), Val(1200), Val(10), Val("http://pic"),
                  Val([i \in 1..PoolPosts |-> StubFull]))
PoolWorlds == {World(Sessions, 2, {Item(PoolAnswer)}, {GoodReply}, TRUE)}

InitPool == InitWith(PoolWorlds, {NoProbe})

SpecPool == InitPool /\ [][Next]_vars

(***************************************************************************)
(* The scoring function on its own: every reply with a short content text. *)
(***************************************************************************)
ScoreAlphabet == {"Overall Score:", " ", "0", "1", "4", "/"}
ScoreTexts == UNION {[1..n -> ScoreAlphabet] : n \in 0..MaxTextLen}
ScoreReplies ==
    {TransportFailure, GarbledReply}
    \cup {JsonReply(Val(t), Null) : t \in ScoreTexts}
    \cup {JsonReply(c, Val(<<"q", "u", "o", "t", "a">>)) : c \in {Null, Val(<<>>)}}
    \cup {JsonReply(Null, Null)}

NoWorld == World({}, 0, {}, {}, TRUE)

InitScore == InitWith({NoWorld}, {[in |-> r, out |-> NoAI] : r \in ScoreReplies})

\* get_ai_analysis, lines 318-365, applied to the reply
ScoreReply ==
    /\ probe.in # NoReply
    /\ probe.out = NoAI
    /\ probe' = [probe EXCEPT !.out = AIResult(probe.in)]
    /\ UNCHANGED <<session, errmsg, progress, cache, torn, run, fut, queue, world, posted,
                   rendered, resp>>

NextScore == ScoreReply

SpecScore == InitScore /\ [][NextScore]_vars

(***************************************************************************)
(* The scoring function on two replies, to compare their texts.            *)
(***************************************************************************)
\* the variables of the pipeline, which the function specifications leave
pipeline == <<session, errmsg, progress, cache, torn, run, fut, queue, world, posted,
              rendered, resp>>

ModeMessages == {<<"q", "u", "o", "t", "a">>, <<"k", "e", "y">>}
ModeReplies ==
    {TransportFailure, GarbledReply, BadJsonReply, GoodReply}
    \cup {HttpErrorReply(Val(m)) : m \in ModeMessages}
    \cup {JsonReply(c, Val(m)) : c \in {Null, Val(<<>>)}, m \in ModeMessages}
    \cup {JsonReply(Null, Null), JsonReply(Val(<<>>), Null), JsonReply(Null, Val(<<>>))}

InitModes == InitWith({NoWorld}, {[in |-> <<a, b>>, out |-> <<>>] : a, b \in ModeReplies})

\* get_ai_analysis, lines 318-365, applied to each of the two replies
ScorePair ==
    /\ probe.out = <<>>
    /\ probe' = [probe EXCEPT !.out = <<AIResult(probe.in[1]), AIResult(probe.in[2])>>]
    /\ UNCHANGED pipeline

NextModes == ScorePair

SpecModes == InitModes /\ [][NextModes]_vars

(***************************************************************************)
(* The account scale on its own: follower counts about every threshold.    *)
(***************************************************************************)
TierSpread == 12
TierMarks == {0, 10000, 100000, 500000, 5000000}
TierInputs == {t + d : t \in TierMarks, d \in -TierSpread..TierSpread}
NoScale == [tier |-> 0, description |-> "", guidance |-> ""]

InitTier == InitWith({NoWorld}, {[in |-> n, out |-> NoScale] : n \in TierInputs})

\* lines 223-242 applied to the follower count
SelectScale ==
    /\ probe.out = NoScale
    /\ probe' = [probe EXCEPT !.out = AccountScale(probe.in)]
    /\ UNCHANGED pipeline

NextTier == SelectScale

SpecTier == InitTier /\ [][NextTier]_vars

(***************************************************************************)
(* The counts of a record on their own: every mix of missing, null and     *)
(* small integers, assembled as the scrape assembles them.                 *)
(***************************************************************************)
CountSpread == 1
CountValues == {Missing, Null} \cup {Val(n) : n \in -CountSpread..CountSpread}
CountInputs ==
    [followersCount : CountValues, followsCount : CountValues,
     likesCount : CountValues, commentsCount : CountValues]
NoCounts == [followersCount |-> 0, followsCount |-> 0, likesCount |-> 0, commentsCount |-> 0]

InitCounts ==
    InitWith({NoWorld}, {[in |-> c, out |-> NoCounts, done |-> FALSE] : c \in CountInputs})

\* lines 160-169 and 188-193 applied to a profile item and a post stub that
\* hold the counts
AssembleCounts ==
    /\ ~probe.done
    /\ LET item == ProfileAnswer(Val("bob"), probe.in.followersCount,
                                 probe.in.followsCount, Null, Val(<<>>))
           stub == [StubFull EXCEPT !.likesCount = probe.in.likesCount,
                                    !.commentsCount = probe.in.commentsCount]
           profile == BuildProfile(item, Null)
           post == FinalizePost(stub, <<>>)
       IN  probe' = [probe EXCEPT !.done = TRUE,
                                  !.out = [followersCount |-> profile.followersCount,
                                           followsCount |-> profile.followsCount,
                                           likesCount |-> post.likesCount,
                                           commentsCount |-> post.commentsCount]]
    /\ UNCHANGED pipeline

NextCounts == AssembleCounts

SpecCounts == InitCounts /\ [][NextCounts]_vars

(***************************************************************************)
(* The caption preview on its own: captions up to a few characters more    *)
(* than the preview holds, and the null caption.                           *)
(***************************************************************************)
CaptionOver == 3
CaptionInputs ==
    {Null} \cup {Val([i \in 1..n |-> "c"]) : n \in 0..(CAPTION_PREVIEW + CaptionOver)}

InitCaption ==
    InitWith({NoWorld}, {[in |-> c, out |-> <<>>, done |-> FALSE] : c \in CaptionInputs})

\* line 309 applied to the caption
PreviewCaption ==
    /\ ~probe.done
    /\ probe' = [probe EXCEPT !.done = TRUE, !.out = CaptionPreview(probe.in)]
    /\ UNCHANGED pipeline

NextCaption == PreviewCaption

SpecCaption == InitCaption /\ [][NextCaption]_vars

(***************************************************************************)
(* Properties.                                                             *)
(***************************************************************************)
ProgressState(status, percentage) == [status |-> status, percentage |-> percentage]

\* the profile scraper gave the request of s a profile item
GotProfile(s) == run[s].got = "item"
\* number of post stubs of that item
StubsReturned(s) ==
    LET p == GetOr(run[s].item.latestPosts, <<>>)
    IN  IF p.tag = "val" THEN Len(p.v) ELSE 0
\* the scrape of the request of s is over, with data or with None
ScrapeOver(s) == run[s].pc \in {"scoring", "writing", "dumping", "done", "failed", "crashed"}

\* C1: a perform_analysis request for a username that is in the saved
\* profiles ends in that one step: it calls neither scraper nor the language
\* model, submits no task, leaves the saved profiles as they are, sets the
\* progress of the username to 'Analysis complete (cached)!' at 100, and the
\* result read afterwards is the saved one; its call counts stay zero.
C1_CacheHitShortCircuit ==
    /\ [][\A s \in Sessions :
            (run[s].pc = "idle" /\ run'[s].pc # "idle" /\ session[s] \in DOMAIN cache)
            => /\ run'[s].pc = "done"
               /\ run'[s].nProfile = 0 /\ run'[s].nComment = 0
               /\ run'[s].nLLM = 0 /\ run'[s].nPut = 0
               /\ fut' = fut /\ queue' = queue
               /\ cache' = cache
               /\ session[s] \in DOMAIN progress'
               /\ progress'[session[s]] = ProgressState("Analysis complete (cached)!", 100)
               /\ GetResult(cache', session[s]) = Val(cache[session[s]])]_vars
    /\ [](\A s \in Sessions :
            run[s].cached
            => /\ run[s].pc = "done"
               /\ run[s].nProfile = 0 /\ run[s].nComment = 0
               /\ run[s].nLLM = 0 /\ run[s].nPut = 0)

C1_Witness ==
    \E s \in Sessions :
        /\ run[s].pc = "done" /\ run[s].cached
        /\ run[s].user \in DOMAIN cache
        /\ progress[run[s].user].percentage = 100

\* C2: whenever the scrape of a request that got a profile item with k post
\* stubs is over, it has returned data whose post list has min(k, 5) entries.
C2_AllPostsRetained ==
    \A s \in Sessions :
        (GotProfile(s) /\ ScrapeOver(s))
        => /\ run[s].pc # "failed"
           /\ Len(run[s].latestPosts) = Min(StubsReturned(s), NUM_POSTS_TO_SCRAPE)

\* C3: whenever the scrape of a request is over, every post whose comment
\* call raised is in the returned post list with no comments, and every post
\* whose comment call returned items holds exactly those items.
C3_FailedFetchKeepsPost ==
    \A s \in Sessions :
        ScrapeOver(s)
        => \A i \in DOMAIN fut[s] :
              /\ fut[s][i].failed
                 => /\ run[s].pc # "failed"
                    /\ i <= Len(run[s].latestPosts)
                    /\ run[s].latestPosts[i].shortCode = run[s].stubs[i].shortCode
                    /\ run[s].latestPosts[i].comments = <<>>
              /\ (fut[s][i].st = "done" /\ ~fut[s][i].failed /\ i <= Len(run[s].latestPosts))
                 => run[s].latestPosts[i].comments = fut[s][i].res

\* the percentages a request logged under a key, in order
PctsUnder(log, key) ==
    LET l == SelectSeq(log, LAMBDA e : e.key = key)
    IN  [i \in 1..Len(l) |-> l[i].pct]

\* C4: a request that ran the whole pipeline and returned "complete" has
\* written, with analyze's initial write, exactly 0, 20, 50, 80, 100 under
\* its username.
C4_ProgressSequence ==
    \A s \in Sessions :
        (run[s].pc = "done" /\ ~run[s].cached)
        => PctsUnder(run[s].plog, run[s].user) = <<0, 20, 50, 80, 100>>

\* the decimal value of a text of digits
RECURSIVE Decimal(_)
Decimal(ds) ==
    IF ds = <<>> THEN 0 ELSE DigitVal(Head(ds)) * 10 ^ (Len(ds) - 1) + Decimal(Tail(ds))

\* t[p..] starts with "Overall Score:", then whitespace up to q, then the
\* digits t[q..r-1], then "/10"
PatternAt(t, p, q, r) ==
    /\ t[p] = "Overall Score:"
    /\ p < q /\ q < r /\ r + 2 <= Len(t)
    /\ \A j \in (p + 1)..(q - 1) : t[j] = " "
    /\ \A j \in q..(r - 1) : t[j] \in DigitChars
    /\ t[r] = "/" /\ t[r + 1] = "1" /\ t[r + 2] = "0"

PatternStarts(t) ==
    {p \in 1..Len(t) : \E q \in 1..Len(t), r \in 1..Len(t) : PatternAt(t, p, q, r)}

\* the score a content text is to get
ExpectedScore(t) ==
    IF PatternStarts(t) = {} THEN 0
    ELSE LET p == CHOOSE x \in PatternStarts(t) : \A y \in PatternStarts(t) : x <= y
             qr == CHOOSE w \in (1..Len(t)) \X (1..Len(t)) : PatternAt(t, p, w[1], w[2])
             X == Decimal(SubSeq(t, qr[1], qr[2] - 1))
         IN  IF X < 1 THEN 1 ELSE IF X > 10 THEN 10 ELSE X

\* the call failed, or the reply holds no content
ReplyFailed(reply) ==
    \/ reply.kind \in {"transport", "garbled", "http_error", "bad_json"}
    \/ reply.kind = "json" /\ ~(reply.content.tag = "val" /\ reply.content.v # <<>>)

\* C5: the score of every reply is an integer in 0..10; it is 0 when the
\* call failed or the content has no 'Overall Score: <int>/10', and else the
\* integer of the leftmost match clamped to 1..10.
C5_ScoreRange ==
    (probe.in # NoReply /\ probe.out # NoAI)
    => /\ probe.out.score \in 0..10
       /\ ReplyFailed(probe.in) => probe.out.score = 0
       /\ ~ReplyFailed(probe.in) => probe.out.score = ExpectedScore(probe.in.content.v)

C5_Witness ==
    \/ /\ probe.in = JsonReply(Val(<<"Overall Score:", "1", "4", "/", "1", "0">>), Null)
       /\ probe.out.score = 10
    \/ /\ probe.in = JsonReply(Val(<<"Overall Score:", " ", "0", "/", "1", "0">>), Null)
       /\ probe.out.score = 1

ErrorState == ProgressState("Error during data retrieval!", 0)

\* C6: when the profile scraper returns no item, the request fails in that
\* step: no task is submitted, the language model is not called, the saved
\* profiles are left as they are and hold no result for the username, and
\* the progress of the username is the error state at 0; the failed request
\* has made no comment call, no language-model call and no cache write.
C6_EmptyProfileFails ==
    /\ [][\A s \in Sessions :
            (run[s].pc = "fetchingProfile" /\ run'[s].pc # "fetchingProfile"
                /\ run'[s].got = "empty")
            => /\ run'[s].pc = "failed"
               /\ fut' = fut /\ queue' = queue
               /\ cache' = cache
               /\ GetResult(cache', run[s].user) = Null
               /\ run[s].user \in DOMAIN progress'
               /\ progress'[run[s].user] = ErrorState]_vars
    /\ [](\A s \in Sessions :
            run[s].got = "empty"
            => /\ run[s].pc = "failed"
               /\ fut[s] = <<>>
               /\ run[s].nComment = 0 /\ run[s].nLLM = 0 /\ run[s].nPut = 0)

C6_Witness ==
    \E s \in Sessions :
        /\ run[s].pc = "failed" /\ run[s].got = "empty"
        /\ progress[run[s].user] = ErrorState
        /\ run[s].user \notin DOMAIN cache

\* the last progress write a request logged
LastWrite(s) == run[s].plog[Len(run[s].plog)]

\* C7: a request never ends in an intermediate progress state: when its
\* handler is over, its last progress write is 100, or the error state at 0.
\* (A request that is over takes no further step.)
C7_EveryRunEndsTerminal ==
    \A s \in Sessions :
        run[s].pc \in Ended
        => \/ LastWrite(s).pct = 100
           \/ LastWrite(s).pct = 0 /\ LastWrite(s).status = ErrorState.status

\* the request of s has written progress 50
Wrote50(s) == \E i \in 1..Len(run[s].plog) : run[s].plog[i].pct = 50

\* C8: a request that has written progress 50 never fails.
C8_FailedOnlyFromFetchingProfile ==
    \A s \in Sessions : Wrote50(s) => run[s].pc # "failed"

\* C9: after a failed scoring call the request goes on to write the file
\* and to return "complete": the step that rewrites the file stores, under
\* the requested username, the assembled data with score 0 and a text that
\* explains the failure, and sets the progress of the username to 100.
C9_ScoringFailureCompletes ==
    /\ [][\A s \in Sessions :
            /\ (run[s].pc = "scoring" /\ run'[s].pc # "scoring")
               => run'[s].pc = "writing"
            /\ (run[s].pc = "writing" /\ run'[s].pc # "writing")
               => run'[s].pc = "dumping"
            /\ (run[s].pc = "dumping" /\ run'[s].pc # "dumping")
               => run'[s].pc = "done"
            /\ (run[s].pc = "dumping" /\ run'[s].pc = "done" /\ ReplyFailed(run[s].reply))
               => /\ run[s].user \in DOMAIN cache'
                  /\ cache'[run[s].user].ai_analysis.score = 0
                  /\ cache'[run[s].user].ai_analysis.text.kind \in FailureKinds
                  /\ cache'[run[s].user].profile_data.profile = run[s].profile
                  /\ cache'[run[s].user].profile_data.latestPosts = run[s].latestPosts
                  /\ progress'[run[s].user] = ProgressState("Analysis complete!", 100)]_vars
    /\ [](\A s \in Sessions :
            (run[s].pc \in {"writing", "dumping", "done"} /\ ~run[s].cached
                /\ ReplyFailed(run[s].reply))
            => run[s].ai.score = 0 /\ run[s].ai.text.kind \in FailureKinds)

C9_Witness ==
    \E s \in Sessions :
        /\ run[s].pc = "done" /\ ReplyFailed(run[s].reply)
        /\ run[s].user \in DOMAIN cache
        /\ cache[run[s].user].ai_analysis.score = 0
        /\ cache[run[s].user].ai_analysis.text.kind \in FailureKinds
        /\ progress[run[s].user].percentage = 100

\* C10: when the requests of two sessions for two different usernames have
\* both run the pipeline and returned "complete", the saved profiles hold
\* the result of both.
C10_NoLostEntries ==
    \A s \in Sessions, t \in Sessions :
        (/\ s # t
         /\ run[s].pc = "done" /\ ~run[s].cached
         /\ run[t].pc = "done" /\ ~run[t].cached
         /\ run[s].user # run[t].user)
        => /\ run[s].user \in DOMAIN cache
           /\ run[t].user \in DOMAIN cache

\* two different sessions whose requests run the pipeline for one username
SameIdentityRace(s, t) ==
    /\ s # t
    /\ run[s].user # NoUser /\ run[s].user = run[t].user
    /\ ~run[s].cached /\ ~run[t].cached

\* C11: when the requests of two sessions run the pipeline for the same
\* username, neither dies of an exception, and once both have returned
\* "complete" the file is a JSON document that holds for the username the
\* whole result of one of the two.
C11_SameIdentityRace ==
    \A s \in Sessions, t \in Sessions :
        SameIdentityRace(s, t)
        => /\ run[s].pc # "crashed"
           /\ (run[s].pc = "done" /\ run[t].pc = "done")
              => /\ ~torn
                 /\ GetResult(cache, run[s].user)
                       \in {Val(FullAnalysis(run[s])), Val(FullAnalysis(run[t]))}

\* the progress entries of p other than that of key
Others(p, key) == [k \in DOMAIN p \ {key} |-> p[k]]

\* C12: a step that serves /analysis_progress answers with a progress state,
\* the default 'waiting' state at 0 when the username has no entry, and
\* changes neither the progress entries nor the file; a step that serves
\* /results does not raise, finds no result when the file holds none for the
\* username, and leaves the file and the entries of the other usernames as
\* they are.
C12_ReadsAreTotal ==
    [][/\ resp'.route = "progress"
          => /\ resp'.body.tag = "val"
             /\ (resp'.user # NoUser /\ resp'.user \notin DOMAIN progress)
                => /\ resp'.body.v.status = "Waiting for analysis to start..."
                   /\ resp'.body.v.percentage = 0
             /\ progress' = progress /\ cache' = cache /\ torn' = torn
       /\ resp'.route = "results"
          => /\ resp'.body.tag # "raise"
             /\ resp'.user \notin DOMAIN cache => resp'.body = Null
             /\ cache' = cache /\ torn' = torn
             /\ Others(progress', resp'.user) = Others(progress, resp'.user)]_vars

\* every request for the username u has ended
RunsEnded(u) == \A s \in Sessions : session[s] = u => run[s].pc \in Ended

\* C13: once the result page of a username has been rendered and every
\* request for the username has ended, the progress entries hold none for
\* it, until a form is posted for it again.
C13_EntryStaysRemoved ==
    \A u \in rendered : RunsEnded(u) => u \notin DOMAIN progress

\* the scoring call of the request of s has been issued
ScoringIssued(s) == run[s].nLLM > 0
\* the file has been opened for writing, or written, by the request of s
WriteBegun(s) == run[s].pc = "dumping" \/ run[s].nPut > 0

\* C14: a request has submitted tasks, and made comment calls, only after
\* the profile scraper gave it a profile item; once its scoring call is
\* issued every task it submitted has finished and every post is in the
\* list; it loads and rewrites the file only after the language model has
\* answered.
C14_StrictStageOrder ==
    \A s \in Sessions :
        /\ (fut[s] # <<>> \/ run[s].nComment > 0) => run[s].got = "item"
        /\ ScoringIssued(s)
           => /\ TasksSettled(s)
              /\ Len(run[s].latestPosts) = Len(fut[s])
        /\ (run[s].pc = "writing" \/ WriteBegun(s))
           => /\ ScoringIssued(s)
              /\ run[s].reply # NoReply

C14_Witness ==
    \E s \in Sessions :
        /\ run[s].pc = "done" /\ run[s].nPut = 1
        /\ Len(fut[s]) >= 2 /\ run[s].nComment >= 2
        /\ run[s].overtaken # <<0, 0>>

\* the tasks the executor holds in its queue
Queued == {t \in Sessions \X (1..NUM_POSTS_TO_SCRAPE) :
              t[2] \in DOMAIN fut[t[1]] /\ fut[t[1]][t[2]].st = "queued"}

\* C15: at most MAX_WORKERS tasks, counted over the requests of all
\* sessions, are running; every submitted task that is neither running nor
\* finished is in the one queue of the executor, once.
C15_PoolBound ==
    /\ Cardinality(Running) <= MAX_WORKERS
    /\ Queued = {queue[k] : k \in 1..Len(queue)}
    /\ Cardinality(Queued) = Len(queue)

\* five tasks of two requests for different usernames are running and a
\* sixth waits in the queue
C15_Witness ==
    /\ Cardinality(Running) = MAX_WORKERS
    /\ queue # <<>>
    /\ \E t \in Running, w \in Running :
          /\ t[1] # w[1]
          /\ run[t[1]].user # run[w[1]].user

\* the post stub has no short code
NoShortCode(stub) == ~TruthyStr(Get(stub.shortCode))

\* C16: for a post without a short code the comment scraper is not called;
\* when the scrape is over the post is in the returned list, at its place,
\* with no comments and with the hashtags of its caption, and the list
\* holds every post of the request; the prompt gives 'N/A' as its URL.
C16_PostWithoutShortCode ==
    \A s \in Sessions :
        /\ run[s].nComment <= Cardinality({i \in DOMAIN fut[s] : ~NoShortCode(run[s].stubs[i])})
        /\ \A i \in DOMAIN fut[s] :
              NoShortCode(run[s].stubs[i])
              => /\ fut[s][i].st # "running"
                 /\ fut[s][i].res = <<>>
                 /\ ScrapeOver(s)
                    => /\ run[s].pc # "failed"
                       /\ Len(run[s].latestPosts) = Len(run[s].stubs)
                       /\ run[s].latestPosts[i].comments = <<>>
                       /\ run[s].latestPosts[i].caption = run[s].stubs[i].caption
                       /\ run[s].latestPosts[i].hashtags
                             = Hashtags(GetOr(run[s].stubs[i].caption, <<>>).v)
                 /\ run[s].prompt # <<>> => run[s].prompt[i] = <<"N/A">>

\* the scrape of the request of s has returned its data
DataReturned(s) == run[s].pc \in {"scoring", "writing", "dumping", "done"} /\ ~run[s].cached

\* the places in the returned list of the posts with the short code of stub i
PlacesOf(s, i) ==
    {k \in 1..Len(run[s].latestPosts) :
        run[s].latestPosts[k].shortCode = run[s].stubs[i].shortCode}

\* task j of s, submitted after task i, finished before it, and the two
\* posts can be told apart
FinishedOutOfOrder(s, j, i) ==
    /\ run[s].overtaken = <<j, i>> /\ j # 0
    /\ run[s].stubs[j].shortCode # run[s].stubs[i].shortCode

\* C17 as stated: when the task of a post submitted later finished before
\* the task of a post submitted earlier, the later post stands before the
\* earlier one in the returned list.
C17_CompletionOrder ==
    \A s \in Sessions :
        DataReturned(s)
        => \A j \in DOMAIN fut[s], i \in DOMAIN fut[s] :
              FinishedOutOfOrder(s, j, i)
              => \A a \in PlacesOf(s, j), b \in PlacesOf(s, i) : a < b

\* C17 as amended: the returned list holds the posts in the order in which
\* their tasks were submitted, the order of the profile's post list,
\* whatever the order in which the tasks finished: post k of the list is
\* made of stub k and of the result of task k, while the list is built and
\* when it is returned.
C17_SubmissionOrder ==
    \A s \in Sessions :
        (run[s].pc = "collecting" \/ DataReturned(s))
        => /\ Len(run[s].latestPosts) <= Len(run[s].stubs)
           /\ DataReturned(s) => Len(run[s].latestPosts) = Len(run[s].stubs)
           /\ \A k \in 1..Len(run[s].latestPosts) :
                 /\ run[s].latestPosts[k].shortCode = run[s].stubs[k].shortCode
                 /\ run[s].latestPosts[k].caption = run[s].stubs[k].caption
                 /\ run[s].latestPosts[k].comments = fut[s][k].res

C17_Witness ==
    \E s \in Sessions :
        /\ DataReturned(s)
        /\ \E j \in DOMAIN fut[s], i \in DOMAIN fut[s] :
              /\ FinishedOutOfOrder(s, j, i)
              /\ \A a \in PlacesOf(s, j), b \in PlacesOf(s, i) : b < a

\* C18: whenever the progress entry of a username is at 100, the file is a
\* JSON document that holds a result for the username.
C18_CompleteImpliesCached ==
    \A u \in DOMAIN progress :
        progress[u].percentage = 100
        => /\ progress[u].status \in {"Analysis complete!", "Analysis complete (cached)!"}
           /\ ~torn
           /\ u \in DOMAIN cache

\* the progress writes the request of s makes in a step: that of a form
\* with a username, which starts the log anew, or what the step adds
NewWrites(s) ==
    IF posted'[s] # posted[s] THEN (IF errmsg'[s] THEN <<>> ELSE run'[s].plog)
    ELSE IF Len(run'[s].plog) >= Len(run[s].plog)
         THEN SubSeq(run'[s].plog, Len(run[s].plog) + 1, Len(run'[s].plog))
         ELSE <<>>

\* the last write under key of a sequence of writes is the pair e
LastUnder(writes, key, e) ==
    \E i \in 1..Len(writes) :
        /\ writes[i].key = key
        /\ ProgressState(writes[i].status, writes[i].pct) = e
        /\ \A j \in (i + 1)..Len(writes) : writes[j].key # key

\* C19: the progress entry of a key changes, or comes to be, only as the
\* whole pair of the last write a request makes under the key in that step,
\* and every such write is in the entry after the step; what a poll answers
\* for a username is its entry as it stands, or the default.
C19_AtomicProgressWrites ==
    /\ [][\A k \in DOMAIN progress' :
            /\ (k \notin DOMAIN progress \/ progress'[k] # progress[k])
               => \E s \in Sessions : LastUnder(NewWrites(s), k, progress'[k])
            /\ \A s \in Sessions :
                  (\E i \in 1..Len(NewWrites(s)) : NewWrites(s)[i].key = k)
                  => LastUnder(NewWrites(s), k, progress'[k])]_vars
    /\ [](resp.route = "progress" /\ resp.user # NoUser
            => resp.body = Val(IF resp.user \in DOMAIN progress
                               THEN progress[resp.user] ELSE WaitingToStart))

\* a poll reads the entry that the request of another session last wrote
C19_Witness ==
    /\ resp.route = "progress"
    /\ \E t \in Sessions :
          /\ t # resp.session
          /\ run[t].user = resp.user
          /\ run[t].plog # <<>>
          /\ resp.body = Val(ProgressState(LastWrite(t).status, LastWrite(t).pct))
          /\ \E s \in Sessions :
                /\ s # t /\ run[s].user = resp.user
                /\ Len(run[s].plog) > 1
                /\ LastWrite(s).pct # LastWrite(t).pct

\* C20: every progress write of a request, with the write of analyze, is
\* made under the username of its session.
C20_OwnKeyOnly ==
    \A s \in Sessions :
        \A i \in 1..Len(run[s].plog) : run[s].plog[i].key = session[s]

\* C21: a request that has written the error state and returned makes no
\* further progress write, remote call or cache write, and neither do the
\* tasks it submitted.
C21_ErrorStateIsTerminal ==
    [][\A s \in Sessions :
          (run[s].pc = "failed" /\ run'[s].pc = "failed")
          => /\ run'[s].plog = run[s].plog
             /\ run'[s].nProfile = run[s].nProfile
             /\ run'[s].nComment = run[s].nComment
             /\ run'[s].nLLM = run[s].nLLM
             /\ run'[s].nPut = run[s].nPut]_vars

\* the tasks of the request of s that have called the comment scraper
Called(s) ==
    {i \in DOMAIN fut[s] : fut[s][i].st \in {"running", "done"}
                           /\ TruthyStr(fut[s][i].shortCode)}

\* C22: a request calls the profile scraper at most once and the language
\* model at most once; it submits a task for none but the first
\* NUM_POSTS_TO_SCRAPE posts, and its comment calls are one for each task
\* that has started with a short code, whether the calls raise or return.
C22_NoRetries ==
    \A s \in Sessions :
        /\ run[s].nProfile <= 1
        /\ run[s].nLLM <= 1
        /\ Len(fut[s]) <= NUM_POSTS_TO_SCRAPE
        /\ fut[s] # <<>> => GotProfile(s) /\ Len(fut[s]) <= StubsReturned(s)
        /\ run[s].nComment = Cardinality(Called(s))
        /\ run[s].pc \in {"scoring", "writing", "dumping"} => run[s].nLLM = 1

\* a profile of more posts than are scraped, every comment call and the
\* call of the language model failing
C22_Witness ==
    \E s \in Sessions :
        /\ run[s].pc \in Ended
        /\ run[s].nProfile = 1
        /\ GotProfile(s)
        /\ \/ /\ StubsReturned(s) > NUM_POSTS_TO_SCRAPE
              /\ run[s].nComment = NUM_POSTS_TO_SCRAPE
              /\ \A i \in DOMAIN fut[s] : fut[s][i].failed
           \/ /\ run[s].reply = TransportFailure
              /\ run[s].nLLM = 1
              /\ \E i \in DOMAIN fut[s] : fut[s][i].failed

\* how the call of the language model failed: no answer at all
\* ("network"), an answer of another shape than expected ("malformed"), an
\* answer that holds error.message ("payload"); "none" when it has content
FailureMode(reply) ==
    CASE reply.kind = "transport" -> "network"
      [] reply.kind \in {"garbled", "bad_json"} -> "malformed"
      [] reply.kind = "http_error" -> "payload"
      [] OTHER -> IF TruthyText(reply.content) THEN "none"
                  ELSE IF TruthyText(reply.errmsg) THEN "payload"
                  ELSE "malformed"

C24_FiveTiers ==
    probe.out # NoScale
    => /\ probe.out.tier \in 1..5
       /\ probe.in < 10000 <=> probe.out.tier = 1
       /\ (10000 <= probe.in /\ probe.in < 100000) <=> probe.out.tier = 2
       /\ (100000 <= probe.in /\ probe.in < 500000) <=> probe.out.tier = 3
       /\ (500000 <= probe.in /\ probe.in < 5000000) <=> probe.out.tier = 4
       /\ probe.in >= 5000000 <=> probe.out.tier = 5
       /\ \A n \in TierInputs :
             LET other == AccountScale(n)
             IN  IF other.tier = probe.out.tier
                 THEN other = probe.out
                 ELSE /\ other.description # probe.out.description
                      /\ other.guidance # probe.out.guidance

\* the scale has been selected for the count that is the highest bound
C24_Witness ==
    /\ probe.out # NoScale
    /\ probe.in = 5000000
    /\ probe.out.tier = 5

\* the count a record is to hold for what the source gave
CountOf(x) == IF x.tag = "val" THEN x.v ELSE 0

\* C25: the four counts of an assembled record are non-negative integers,
\* and a count the source leaves out or gives as null is 0.
C25_CountsNonNegative ==
    probe.done
    => /\ probe.out.followersCount \in Nat
       /\ probe.out.followsCount \in Nat
       /\ probe.out.likesCount \in Nat
       /\ probe.out.commentsCount \in Nat
       /\ probe.in.followersCount.tag # "val" => probe.out.followersCount = 0
       /\ probe.in.followsCount.tag # "val" => probe.out.followsCount = 0
       /\ probe.in.likesCount.tag # "val" => probe.out.likesCount = 0
       /\ probe.in.commentsCount.tag # "val" => probe.out.commentsCount = 0

\* C26: the preview of a caption longer than CAPTION_PREVIEW characters is
\* its first CAPTION_PREVIEW characters and an ellipsis; the preview of a
\* shorter caption is the caption itself, without an ellipsis.
C26_EllipsisOnlyWhenLonger ==
    (probe.done /\ probe.in.tag = "val")
    => probe.out = IF Len(probe.in.v) > CAPTION_PREVIEW
                   THEN SubSeq(probe.in.v, 1, CAPTION_PREVIEW) \o <<".", ".", ".">>
                   ELSE probe.in.v

(***************************************************************************)
(* The violations of C2, C3, C4, C7 and C8 have two causes only: a post    *)
(* whose caption is null or missing, and a reported username that differs  *)
(* from the requested one.  Away from them the statements hold.            *)
(***************************************************************************)
\* no post of the request has a null caption or type name
NoNullCaption(s) == \A i \in 1..Len(run[s].stubs) : ~FinalizeRaises(run[s].stubs[i])
\* no post of the request lacks the caption key
NoMissingCaption(s) == \A i \in 1..Len(run[s].stubs) : run[s].stubs[i].caption.tag # "missing"

OnlyNullCaptionDropsPosts ==
    \A s \in Sessions :
        (GotProfile(s) /\ ScrapeOver(s) /\ NoNullCaption(s))
        => /\ run[s].pc # "failed"
           /\ Len(run[s].latestPosts) = Min(StubsReturned(s), NUM_POSTS_TO_SCRAPE)
           /\ \A i \in DOMAIN fut[s] :
                 fut[s][i].failed => run[s].latestPosts[i].comments = <<>>

OnlyForeignNameBreaksSequence ==
    \A s \in Sessions :
        (run[s].pc = "done" /\ ~run[s].cached /\ KeyOf(run[s].profile.username) = run[s].user)
        => PctsUnder(run[s].plog, run[s].user) = <<0, 20, 50, 80, 100>>

OnlyMissingCaptionCrashes ==
    \A s \in Sessions :
        (run[s].pc \in Ended /\ NoMissingCaption(s))
        => \/ LastWrite(s).pct = 100
           \/ LastWrite(s).pct = 0 /\ LastWrite(s).status = ErrorState.status

(***************************************************************************)
(* What holds of the statements that the code breaks.  C11, C12 and C18    *)
(* fail through the unguarded rewrite of the file, C13 and C20 through the *)
(* write at 80 under the reported username, C16 through the null caption.  *)
(***************************************************************************)
\* two requests for one username never leave a result made of parts of both
SameIdentityNoMixture ==
    \A s \in Sessions, t \in Sessions :
        (SameIdentityRace(s, t) /\ run[s].pc = "done" /\ run[t].pc = "done" /\ ~torn)
        => GetResult(cache, run[s].user)
              \in {Val(FullAnalysis(run[s])), Val(FullAnalysis(run[t]))}

\* the reading routes raise only while the file is no JSON document, and a
\* poll never raises
ReadsRaiseOnlyOnTornFile ==
    /\ resp.route = "progress" => resp.body.tag = "val"
    /\ (resp.route = "results" /\ ~torn) => resp.body.tag # "raise"

\* an entry goes only in results(), which removes the entry of its session
ClearOnlyInResults ==
    [][/\ \A u \in DOMAIN progress :
             u \notin DOMAIN progress' => resp'.route = "results" /\ resp'.user = u
       /\ (resp'.route = "results" /\ resp'.user # NoUser)
          => resp'.user \notin DOMAIN progress']_vars

\* with one session, the entries that outlive their result page are the
\* writes at 80 under a reported username
OnlyForeignWriteSurvives ==
    \A u \in rendered :
        (RunsEnded(u) /\ u \in DOMAIN progress)
        => progress[u] = ProgressState("Analyzing with AI...", 80)

\* with one session, a request writes under the username of its session,
\* but for the write at 80
OnlyScoringWriteIsForeign ==
    \A s \in Sessions :
        \A i \in 1..Len(run[s].plog) :
            \/ run[s].plog[i].key = session[s]
            \/ /\ run[s].plog[i].pct = 80
               /\ run[s].plog[i].key = KeyOf(run[s].profile.username)

\* away from null captions the posts without a short code are kept
OnlyNullCaptionDropsNoCodePost ==
    \A s \in Sessions :
        (ScrapeOver(s) /\ NoNullCaption(s))
        => \A i \in DOMAIN fut[s] :
              NoShortCode(run[s].stubs[i])
              => /\ run[s].pc # "failed"
                 /\ Len(run[s].latestPosts) = Len(run[s].stubs)
                 /\ run[s].latestPosts[i].comments = <<>>
                 /\ run[s].latestPosts[i].hashtags
                       = Hashtags(GetOr(run[s].stubs[i].caption, <<>>).v)

\* with one session, an entry at 100 has its result in the file but while
\* the file is being rewritten
CompleteImpliesCachedOrTorn ==
    \A u \in DOMAIN progress :
        progress[u].percentage = 100 => (torn \/ u \in DOMAIN cache)

\* the request itself stops at the error state: what goes on after it are
\* the comment calls of the tasks it had submitted
OnlyTasksOutliveTheError ==
    [][\A s \in Sessions :
          (run[s].pc = "failed" /\ run'[s].pc = "failed")
          => /\ run'[s].plog = run[s].plog
             /\ run'[s].nProfile = run[s].nProfile
             /\ run'[s].nLLM = run[s].nLLM
             /\ run'[s].nPut = run[s].nPut
             /\ run'[s].nComment # run[s].nComment => ~NoNullCaption(s)]_vars

\* a count of the record is the integer the source gave, and 0 for none:
\* it is negative only when the source gave a negative integer
OnlyNegativeInputIsNegative ==
    probe.done
    => /\ probe.out.followersCount = CountOf(probe.in.followersCount)
       /\ probe.out.followsCount = CountOf(probe.in.followsCount)
       /\ probe.out.likesCount = CountOf(probe.in.likesCount)
       /\ probe.out.commentsCount = CountOf(probe.in.commentsCount)

\* every caption that is not empty gets the ellipsis, the long ones after
\* the cut; the empty and the null caption are rendered as 'No caption'
EveryCaptionGetsEllipsis ==
    probe.done
    => IF TruthyText(probe.in)
       THEN /\ Len(probe.out) = Min(Len(probe.in.v), CAPTION_PREVIEW) + 3
            /\ \A i \in 1..Len(probe.out) :
                  probe.out[i] = IF i <= Len(probe.out) - 3 THEN probe.in.v[i] ELSE "."
       ELSE probe.out = <<"N", "o", " ", "c", "a", "p", "t", "i", "o", "n">>

=============================================================================
